---- MODULE Spec2Model ----
(***************************************************************************)
(* Minimal multigraph extension (Algorithm v.3).                           *)
(*                                                                         *)
(* A model of the two extension runs of the repository:                    *)
(*   find_minimal_extension_v3           (src/src/algorithm_v3.py)         *)
(*   find_minimal_extension_v3_directed  (src/src/algorithm_v3_directed.py)*)
(* together with the helpers they call (degrees, cost matrices, the        *)
(* assignment solver, the k-best solvers, exact cost and apply).           *)
(*                                                                         *)
(* Matrices are sequences of rows; vertices are numbered from 0 as in the  *)
(* source, so entry (i, j) of A is A[i + 1][j + 1].  A mapping is the      *)
(* sequence of the graph vertices of pattern vertices 0 .. k-1.            *)
(***************************************************************************)
EXTENDS Integers, Sequences, FiniteSets, TLC

VARIABLES
    variant,            \* "undirected" (algorithm_v3) or "directed"
    A_G, A_P, n,        \* the caller's arguments
    A_curr,             \* working matrix
    total_cost,         \* accumulated cost
    used_vertex_sets,   \* registry of accepted vertex sets
    i,                  \* iterations completed so far (the for-loop index)
    cost_matrix,        \* cost matrix of the running iteration
    best_assignment,    \* the assignment solver's answer for cost_matrix
    j,                  \* rank tried by the uniqueness search
    mapping,            \* mapping accepted by the running iteration
    pc,                 \* position of the run
    solutions,          \* KBestAssignments.solutions of the running enumeration
    queue,              \* its priority queue
    seen_mappings,      \* its set of emitted mapping tuples
    accepted            \* history: one record per completed iteration

vars == <<variant, A_G, A_P, n, A_curr, total_cost, used_vertex_sets, i,
          cost_matrix, best_assignment, j, mapping, pc, solutions, queue,
          seen_mappings, accepted>>

-----------------------------------------------------------------------------
(* Bounds of the model *)

MaxCopies == 2
MaxMult == 2

(* Program constants *)

MaxAttempts == 1000
ExhaustiveMaxK == 3
ExhaustiveMaxN == 10
QuadraticMaxK == 4

-----------------------------------------------------------------------------
(* Matrices and sequences *)

Size(A) == Len(A)
At(A, r, c) == A[r + 1][c + 1]
Idx(m) == 0 .. (m - 1)
Range(s) == {s[x] : x \in DOMAIN s}
Abs(x) == IF x < 0 THEN -x ELSE x
Max2(a, b) == IF a > b THEN a ELSE b
Min2(a, b) == IF a < b THEN a ELSE b
SetMin(S) == CHOOSE x \in S : \A y \in S : x <= y

RECURSIVE SeqSum(_)
SeqSum(s) == IF s = <<>> THEN 0 ELSE Head(s) + SeqSum(Tail(s))

MatSum(A) == SeqSum([r \in 1 .. Len(A) |-> SeqSum(A[r])])
MatGeq(A, B) == \A r, c \in Idx(Size(A)) : At(A, r, c) >= At(B, r, c)
Symmetric(A) == \A r, c \in Idx(Size(A)) : At(A, r, c) = At(A, c, r)
Scale(A, f) == [r \in 1 .. Len(A) |-> [c \in 1 .. Len(A) |-> f * A[r][c]]]
Zeros(m) == [r \in 1 .. m |-> [c \in 1 .. m |-> 0]]

(* All injective mappings of pattern vertices 0..kk-1 to vertices 0..NN-1 *)
InjectiveMappings(kk, NN) ==
    {m \in [1 .. kk -> Idx(NN)] : \A a, b \in 1 .. kk : a # b => m[a] # m[b]}

-----------------------------------------------------------------------------
(* GraphStats *)

calculate_degrees(adj_matrix) ==
    [v \in 1 .. Len(adj_matrix) |-> SeqSum(adj_matrix[v])]

(* CostModel, linear variant.  The caller guards k <= N: with k > N the    *)
(* source's write to cost_matrix[u, v] raises IndexError.                  *)
(* the linear builder storing the signed difference, without abs() *)
build_cost_matrix_signed(P_degrees, G_degrees, k, N) ==
    [u \in 1 .. N |-> [v \in 1 .. N |->
        IF u <= k THEN P_degrees[u] - G_degrees[v] ELSE 0]]

build_cost_matrix(P_degrees, G_degrees, k, N) ==
    [u \in 1 .. N |-> [v \in 1 .. N |->
        IF u <= k THEN Abs(P_degrees[u] - G_degrees[v]) ELSE 0]]

-----------------------------------------------------------------------------
(* AssignmentSolver: scipy.optimize.linear_sum_assignment on a square      *)
(* matrix.  The library returns row_ind = 0..N-1 and a column permutation  *)
(* of minimum total cost; which optimal permutation it returns is decided  *)
(* by the library, so every optimal one is a possible result.  A result is *)
(* the sequence col_ind.                                                   *)

Perms(m) == InjectiveMappings(m, m)

AssignCost(C, p) == SeqSum([r \in 1 .. Len(C) |-> C[r][p[r] + 1]])

linear_sum_assignment(C) ==
    LET all == Perms(Len(C))
        best == SetMin({AssignCost(C, p) : p \in all})
    IN  {p \in all : AssignCost(C, p) = best}

(* col_ind[row_ind < k] *)
RealRows(col_ind, k) == SubSeq(col_ind, 1, k)

-----------------------------------------------------------------------------
(* k-best solver of the undirected module: rank 1 is the assignment        *)
(* solver's mapping; a higher rank perturbs it by min(j-1, k) swaps.  Each *)
(* swap replaces new_mapping[swap_idx] by the first cheapest vertex of     *)
(* list(remaining); a set of small integers lists in increasing order, and *)
(* np.argmin takes the first minimum.  col_ind is the solver's answer for  *)
(* the cost matrix C.                                                      *)

RECURSIVE SwapFrom(_, _, _, _)
SwapFrom(C, new_mapping, swap_idx, swap_count) ==
    IF swap_idx = swap_count THEN new_mapping
    ELSE LET remaining == Idx(Len(C)) \ Range(new_mapping)
         IN  IF remaining = {} THEN
                 SwapFrom(C, new_mapping, swap_idx + 1, swap_count)
             ELSE LET low == SetMin({At(C, swap_idx, alt) : alt \in remaining})
                      best_alt == SetMin({alt \in remaining :
                                             At(C, swap_idx, alt) = low})
                  IN  SwapFrom(C, [new_mapping EXCEPT ![swap_idx + 1] = best_alt],
                               swap_idx + 1, swap_count)

(* the perturbation taking the cheapest other vertex for pattern vertex 0  *)
(* without removing the vertices the mapping already uses                  *)
k_best_assignment_solver_reusing(C, col_ind, rank, k) ==
    LET first == RealRows(col_ind, k)
    IN  IF rank = 1 THEN first
        ELSE LET others == Idx(Len(C)) \ {first[1]}
             IN  IF others = {} THEN first
                 ELSE LET low == SetMin({At(C, 0, alt) : alt \in others})
                      IN  [first EXCEPT ![1] =
                              SetMin({alt \in others : At(C, 0, alt) = low})]

k_best_assignment_solver_undirected(C, col_ind, rank, k) ==
    IF rank = 1 THEN RealRows(col_ind, k)
    ELSE SwapFrom(C, RealRows(col_ind, k), 0, Min2(rank - 1, k))

-----------------------------------------------------------------------------
(* ExtensionEngine, undirected: upper triangle u <= v *)

(* the undirected cost without the clamp max(0, .) of line 158 *)
calculate_extension_cost_unclamped(A, P, m) ==
    LET k == Len(P)
    IN  SeqSum([t \in 1 .. k * k |->
            LET u == (t - 1) \div k
                v == (t - 1) % k
            IN  IF v < u THEN 0
                ELSE At(P, u, v) - At(A, m[u + 1], m[v + 1])])

calculate_extension_cost(A, P, m) ==
    LET k == Len(P)
    IN  SeqSum([t \in 1 .. k * k |->
            LET u == (t - 1) \div k
                v == (t - 1) % k
            IN  IF v < u THEN 0
                ELSE Max2(0, At(P, u, v) - At(A, m[u + 1], m[v + 1]))])

MatAdd(A, r, c, w) == [A EXCEPT ![r + 1][c + 1] = @ + w]

RECURSIVE ApplyFrom(_, _, _, _)
ApplyFrom(A_new, P, m, t) ==
    LET k == Len(P)
        u == t \div k
        v == t % k
    IN  IF t = k * k THEN A_new
        ELSE IF v < u THEN ApplyFrom(A_new, P, m, t + 1)
        ELSE LET g_u == m[u + 1]
                 g_v == m[v + 1]
                 w_missing == Max2(0, At(P, u, v) - At(A_new, g_u, g_v))
                 A1 == IF w_missing > 0 THEN MatAdd(A_new, g_u, g_v, w_missing)
                       ELSE A_new
                 A2 == IF w_missing > 0 /\ g_u # g_v
                       THEN MatAdd(A1, g_v, g_u, w_missing) ELSE A1
             IN  ApplyFrom(A2, P, m, t + 1)

(* apply_extension without the mirror write of line 195 *)
apply_extension_unmirrored(A, P, m) ==
    [r \in 1 .. Len(A) |-> [c \in 1 .. Len(A) |->
        IF \E u, v \in 1 .. Len(P) : u <= v /\ m[u] + 1 = r /\ m[v] + 1 = c
        THEN LET u == CHOOSE x \in 1 .. Len(P) : m[x] + 1 = r
                 v == CHOOSE x \in 1 .. Len(P) : m[x] + 1 = c
             IN  Max2(A[r][c], P[u][v])
        ELSE A[r][c]]]

(* apply_extension adding a single edge where w_missing edges are missing *)
apply_extension_one_edge(A, P, m) ==
    LET B == ApplyFrom(A, P, m, 0)
    IN  [r \in 1 .. Len(A) |-> [c \in 1 .. Len(A) |->
            IF B[r][c] > A[r][c] THEN A[r][c] + 1 ELSE A[r][c]]]

apply_extension(A, P, m) == ApplyFrom(A, P, m, 0)

(* ExtensionEngine, directed: all k*k ordered pairs, no mirroring *)

(* the directed cost restricted to the upper triangle u <= v *)
calculate_extension_cost_directed_upper(A, P, m) ==
    LET k == Len(P)
    IN  SeqSum([t \in 1 .. k * k |->
            LET u == (t - 1) \div k
                v == (t - 1) % k
            IN  IF v < u THEN 0
                ELSE Max2(0, At(P, u, v) - At(A, m[u + 1], m[v + 1]))])

calculate_extension_cost_directed(A, P, m) ==
    LET k == Len(P)
    IN  SeqSum([t \in 1 .. k * k |->
            LET u == (t - 1) \div k
                v == (t - 1) % k
            IN  Max2(0, At(P, u, v) - At(A, m[u + 1], m[v + 1]))])

RECURSIVE ApplyFromDirected(_, _, _, _)
ApplyFromDirected(A_new, P, m, t) ==
    LET k == Len(P)
        u == t \div k
        v == t % k
    IN  IF t = k * k THEN A_new
        ELSE LET g_u == m[u + 1]
                 g_v == m[v + 1]
                 w_missing == Max2(0, At(P, u, v) - At(A_new, g_u, g_v))
             IN  ApplyFromDirected(
                     IF w_missing > 0 THEN MatAdd(A_new, g_u, g_v, w_missing)
                     ELSE A_new, P, m, t + 1)

(* apply_extension_directed storing w_needed in place of adding w_missing *)
apply_extension_directed_overwrite(A, P, m) ==
    [r \in 1 .. Len(A) |-> [c \in 1 .. Len(A) |->
        IF \E u, v \in 1 .. Len(P) : m[u] + 1 = r /\ m[v] + 1 = c
        THEN LET u == CHOOSE x \in 1 .. Len(P) : m[x] + 1 = r
                 v == CHOOSE x \in 1 .. Len(P) : m[x] + 1 = c
             IN  P[u][v]
        ELSE A[r][c]]]

(* apply_extension_directed visiting only the pairs u <= v, as the         *)
(* undirected loop does                                                    *)
apply_extension_directed_upper(A, P, m) == apply_extension_unmirrored(A, P, m)

apply_extension_directed(A, P, m) == ApplyFromDirected(A, P, m, 0)

-----------------------------------------------------------------------------
(* GraphStats and CostModel of the directed module *)

calculate_out_degrees(adj_matrix) ==
    [v \in 1 .. Len(adj_matrix) |-> SeqSum(adj_matrix[v])]

calculate_in_degrees(adj_matrix) ==
    [v \in 1 .. Len(adj_matrix) |->
        SeqSum([r \in 1 .. Len(adj_matrix) |-> adj_matrix[r][v]])]

calculate_total_degrees(adj_matrix) ==
    [v \in 1 .. Len(adj_matrix) |->
        calculate_out_degrees(adj_matrix)[v] + calculate_in_degrees(adj_matrix)[v]]

build_cost_matrix_directed(P_degrees, G_degrees, k, N) ==
    [u \in 1 .. N |-> [v \in 1 .. N |->
        IF u <= k THEN Abs(P_degrees[u] - G_degrees[v]) ELSE 0]]

(* best_existing of the two inner loops: the largest multiplicity leaving  *)
(* (entering) v towards (from) another vertex, 0 when there is none        *)
BestOut(A, v) == LET N == Len(A)
                 IN  CHOOSE b \in {0} \cup {At(A, v, v2) : v2 \in Idx(N) \ {v}} :
                        \A v2 \in Idx(N) \ {v} : b >= At(A, v, v2)
BestIn(A, v) == LET N == Len(A)
                IN  CHOOSE b \in {0} \cup {At(A, v2, v) : v2 \in Idx(N) \ {v}} :
                       \A v2 \in Idx(N) \ {v} : b >= At(A, v2, v)

build_cost_matrix_quadratic_directed(A, P, k, N, used_sets) ==
    [u \in 1 .. N |-> [v \in 1 .. N |->
        IF u <= k THEN
            SeqSum([u2 \in 1 .. k |->
                IF P[u][u2] > 0 THEN Max2(0, P[u][u2] - BestOut(A, v - 1)) ELSE 0])
            + SeqSum([u2 \in 1 .. k |->
                IF P[u2][u] > 0 THEN Max2(0, P[u2][u] - BestIn(A, v - 1)) ELSE 0])
        ELSE 0]]

-----------------------------------------------------------------------------
(* ExactSearch: the exhaustive branch of the directed run.  combinations() *)
(* yields the vertex sets in lexicographic order and permutations() the    *)
(* orderings of each in lexicographic order; a candidate replaces the best *)
(* one only when strictly cheaper, so the first cheapest candidate wins.   *)

RECURSIVE Sorted(_)
Sorted(S) == IF S = {} THEN <<>> ELSE <<SetMin(S)>> \o Sorted(S \ {SetMin(S)})

LexLess(a, b) ==
    \E x \in 1 .. Len(a) : a[x] < b[x] /\ \A y \in 1 .. (x - 1) : a[y] = b[y]

EnumeratedBefore(m1, m2) ==
    \/ LexLess(Sorted(Range(m1)), Sorted(Range(m2)))
    \/ Range(m1) = Range(m2) /\ LexLess(m1, m2)

(* the candidates without the skip of used vertex sets (lines 366-367) *)
ExhaustiveCandidatesAll(N, k, used) == InjectiveMappings(k, N)

ExhaustiveCandidates(N, k, used) ==
    {m \in InjectiveMappings(k, N) : Range(m) \notin used}

(* the search taking the first unused candidate, whatever its cost *)
ExhaustiveFirst(A, P, used) ==
    LET cand == ExhaustiveCandidates(Len(A), Len(P), used)
    IN  IF cand = {} THEN <<>>
        ELSE CHOOSE m \in cand : \A m2 \in cand \ {m} : EnumeratedBefore(m, m2)

(* best_mapping, or <<>> for None *)
ExhaustiveBest(A, P, used) ==
    LET cand == ExhaustiveCandidates(Len(A), Len(P), used)
    IN  IF cand = {} THEN <<>>
        ELSE LET best_cost == SetMin({calculate_extension_cost_directed(A, P, m) : m \in cand})
                 cheapest == {m \in cand :
                                 calculate_extension_cost_directed(A, P, m) = best_cost}
             IN  CHOOSE m \in cheapest :
                     \A m2 \in cheapest \ {m} : EnumeratedBefore(m, m2)

-----------------------------------------------------------------------------
(* KBestAssignments: Murty's partitioning on top of the assignment solver  *)

MaxSolutionsCap == 100
ExtraSolutions == 10

NoSolution == [cost |-> -1, mapping |-> <<>>]

(* The source marks cells with 1e10 and -1e10.  The sum of an assignment   *)
(* of the modified matrix is then units * 1e10 + rest, where rest is a sum *)
(* of original entries; as long as 1e10 exceeds the sum of all entries of  *)
(* the cost matrix, assignments are ordered by units first and rest next.  *)
(* Any mark above that sum gives the same order, and the least one keeps   *)
(* the sums within the checker's integers.                                 *)
Mark(C) == MatSum(C) + 1

(* modified_cost: excluded cells first, then every included row *)
RECURSIVE ForceIncludes(_, _, _, _)
ForceIncludes(M, mark, include_constraints, x) ==
    IF x > Len(include_constraints) THEN M
    ELSE LET row == include_constraints[x][1]
             col == include_constraints[x][2]
         IN  ForceIncludes(
                 [M EXCEPT ![row + 1] =
                     [c \in 1 .. Len(M) |-> IF c = col + 1 THEN -mark ELSE mark]],
                 mark, include_constraints, x + 1)

ModifiedCost(C, include_constraints, exclude_constraints) ==
    ForceIncludes(
        [r \in 1 .. Len(C) |-> [c \in 1 .. Len(C) |->
            IF <<r - 1, c - 1>> \in Range(exclude_constraints)
            THEN Mark(C) ELSE C[r][c]]],
        Mark(C), include_constraints, 1)

(* The possible results (true_cost, mapping) of one constrained solve;     *)
(* NoSolution stands for (None, None).                                     *)
solve_with_constraints(C, k_pattern, include_constraints, exclude_constraints) ==
    {IF \A x \in 1 .. Len(include_constraints) :
            col_ind[include_constraints[x][1] + 1] = include_constraints[x][2]
     THEN [cost |-> AssignCost(C, col_ind), mapping |-> RealRows(col_ind, k_pattern)]
     ELSE NoSolution
     : col_ind \in linear_sum_assignment(
                       ModifiedCost(C, include_constraints, exclude_constraints))}

(* Order of the heap entries (cost, includes, excludes, mapping): Python's *)
(* tuple and list comparison.  Two entries never agree on cost, includes   *)
(* and excludes, so the mapping arrays are never compared.                 *)
PairLess(a, b) == a[1] < b[1] \/ (a[1] = b[1] /\ a[2] < b[2])

ListLess(x, y) ==
    \/ \E p \in 1 .. Min2(Len(x), Len(y)) :
          /\ \A q \in 1 .. (p - 1) : x[q] = y[q]
          /\ PairLess(x[p], y[p])
    \/ Len(x) < Len(y) /\ \A q \in 1 .. Len(x) : x[q] = y[q]

EntryLess(a, b) ==
    \/ a.cost < b.cost
    \/ a.cost = b.cost /\ ListLess(a.includes, b.includes)
    \/ a.cost = b.cost /\ a.includes = b.includes /\ ListLess(a.excludes, b.excludes)

HeapMin(q) == CHOOSE a \in q : \A b \in q \ {a} : EntryLess(a, b)

(* The for-loop of compute_k_best over the rows of the popped mapping:     *)
(* the set of the possible sets of entries pushed by rows x .. k-1         *)
RECURSIVE Partition(_, _, _, _, _, _)
Partition(C, k_pattern, includes, excludes, current_mapping, x) ==
    IF x = k_pattern THEN {{}}
    ELSE LET row == x
             col == current_mapping[x + 1]
             new_excludes == Append(excludes, <<row, col>>)
             solved == solve_with_constraints(C, k_pattern, includes, new_excludes)
             rest == Partition(C, k_pattern, Append(includes, <<row, col>>), excludes,
                               current_mapping, x + 1)
         IN  {(IF s = NoSolution THEN {}
               ELSE {[cost |-> s.cost, includes |-> includes,
                      excludes |-> new_excludes, mapping |-> s.mapping]}) \cup others
              : s \in solved, others \in rest}

(* get_solution(j) with the fallbacks of k_best_assignment_solver *)
KBestResult(sols, rank, k) ==
    IF rank <= Len(sols) THEN sols[rank].mapping
    ELSE IF Len(sols) > 0 THEN sols[Len(sols)].mapping
    ELSE [u \in 1 .. k |-> u - 1]

-----------------------------------------------------------------------------
(* Inputs of the runs *)

EdgeUndirected  == <<<<0, 1>>, <<1, 0>>>>
EdgeDirected    == <<<<0, 1>>, <<0, 0>>>>
LoopAndEdge2    == <<<<1, 1>>, <<1, 0>>>>
PathUndirected3 == <<<<0, 1, 0>>, <<1, 0, 1>>, <<0, 1, 0>>>>
PathDirected3   == <<<<0, 1, 0>>, <<0, 0, 1>>, <<0, 0, 0>>>>
Triangle        == <<<<0, 1, 1>>, <<1, 0, 1>>, <<1, 1, 0>>>>
LoopAndEdge3    == <<<<1, 0, 0>>, <<0, 0, 1>>, <<0, 1, 0>>>>
PathUndirected4 == <<<<0, 1, 0, 0>>, <<1, 0, 1, 0>>, <<0, 1, 0, 1>>, <<0, 0, 1, 0>>>>
Host5           == <<<<0, 0, 0, 0, 0>>, <<1, 0, 0, 2, 1>>, <<1, 1, 0, 0, 2>>,
                     <<0, 0, 0, 0, 0>>, <<0, 0, 0, 1, 0>>>>
Pattern4        == <<<<0, 0, 0, 0>>, <<2, 0, 2, 1>>, <<1, 0, 0, 0>>, <<3, 0, 3, 0>>>>

Hosts == {Zeros(1), Zeros(2), EdgeUndirected, EdgeDirected, Zeros(3),
          PathUndirected3, PathDirected3, LoopAndEdge3}

Patterns == {Zeros(1), <<<<1>>>>, EdgeUndirected, EdgeDirected, LoopAndEdge2,
             Triangle, PathDirected3, LoopAndEdge3}

Variants == {"undirected", "directed"}

(* The undirected module takes symmetric hosts (QUICK_REFERENCE,           *)
(* CONSTRAINTS); the directed module takes any host.                       *)
SmallInputs ==
    {[variant |-> w, A_G |-> G, A_P |-> Scale(P, f), n |-> c] :
        w \in Variants, G \in Hosts, P \in Patterns, f \in 1 .. MaxMult,
        c \in 0 .. MaxCopies}
    \ {inp \in [variant : {"undirected"}, A_G : Hosts,
                A_P : {Scale(P, f) : P \in Patterns, f \in 1 .. MaxMult},
                n : 0 .. MaxCopies] : ~Symmetric(inp.A_G)}

(* Runs of the assignment branch of the directed module (k > 3) *)
LargeInputs ==
    {[variant |-> "directed", A_G |-> Host5, A_P |-> Pattern4, n |-> c] : c \in 0 .. 2}
    \cup {[variant |-> w, A_G |-> PathUndirected4, A_P |-> PathUndirected4, n |-> 1] :
             w \in Variants}

(* Runs for three copies of a one-vertex pattern in a host of two or three *)
(* vertices                                                                *)
ManyCopiesInputs ==
    {[variant |-> w, A_G |-> G, A_P |-> P, n |-> 3] :
        w \in Variants, G \in {Zeros(2), Zeros(3)}, P \in {Zeros(1), <<<<1>>>>}}

(* Runs for two copies of an edge in a host with room for disjoint copies *)
RoomyInputs ==
    {[variant |-> w, A_G |-> Zeros(4), A_P |-> EdgeUndirected, n |-> 2] : w \in Variants}

(* Runs for one copy in an edgeless host on four vertices: the exhaustive   *)
(* branch (k = 3) and the assignment branch (k = 4) of the directed run    *)
EdgelessInputs ==
    {[variant |-> w, A_G |-> Zeros(4), A_P |-> Scale(P, f), n |-> 1] :
        w \in Variants, P \in {Triangle, PathDirected3, LoopAndEdge3, PathUndirected4},
        f \in 1 .. MaxMult}

Inputs == SmallInputs \cup LargeInputs \cup ManyCopiesInputs \cup RoomyInputs
              \cup EdgelessInputs

-----------------------------------------------------------------------------
(* The runs *)

N == Len(A_G)
k == Len(A_P)

Init ==
    \E inp \in Inputs :
        /\ variant = inp.variant
        /\ A_G = inp.A_G
        /\ A_P = inp.A_P
        /\ n = inp.n
        /\ A_curr = inp.A_G
        /\ total_cost = 0
        /\ used_vertex_sets = {}
        /\ i = 0
        /\ cost_matrix = <<>>
        /\ best_assignment = <<>>
        /\ j = 0
        /\ mapping = <<>>
        /\ pc = "loop"
        /\ solutions = <<>>
        /\ queue = {}
        /\ seen_mappings = {}
        /\ accepted = <<>>

inputs == <<variant, A_G, A_P, n>>
iteration == <<cost_matrix, best_assignment>>
enumerator == <<solutions, queue, seen_mappings>>

(* the inner while loop without its test against the registry: the first   *)
(* mapping is taken as it comes                                            *)
CheckUniqueNoRegistry(m) ==
    /\ used_vertex_sets' = used_vertex_sets \cup {Range(m)}
    /\ mapping' = m
    /\ pc' = "install"
    /\ j' = j

(* the inner while loop without its cap on j: a used vertex set always     *)
(* leads to the next rank                                                  *)
CheckUniqueUncapped(m) ==
    IF Range(m) \notin used_vertex_sets THEN
        /\ used_vertex_sets' = used_vertex_sets \cup {Range(m)}
        /\ mapping' = m
        /\ pc' = "install"
        /\ j' = j
    ELSE
        /\ j' = j + 1
        /\ pc' = "search"
        /\ UNCHANGED <<used_vertex_sets, mapping>>

(* The uniqueness check of the inner while loop on the mapping m returned  *)
(* for rank j: accept it, or go on to rank j + 1, or give up past the cap. *)
CheckUnique(m) ==
    LET target_set == Range(m)
    IN  IF target_set \notin used_vertex_sets THEN
            /\ used_vertex_sets' = used_vertex_sets \cup {target_set}
            /\ mapping' = m
            /\ pc' = "install"
            /\ j' = j
        ELSE
            /\ j' = j + 1
            /\ pc' = IF j + 1 > MaxAttempts THEN "RuntimeError" ELSE "search"
            /\ UNCHANGED <<used_vertex_sets, mapping>>

(* algorithm_v3.find_minimal_extension_v3: top of an iteration *)
StartIteration ==
    /\ variant = "undirected"
    /\ pc = "loop"
    /\ i < n
    /\ IF k > N THEN
           /\ pc' = "IndexError"
           /\ UNCHANGED <<iteration, j>>
       ELSE
           /\ cost_matrix' = build_cost_matrix(calculate_degrees(A_P),
                                               calculate_degrees(A_curr), k, N)
           /\ best_assignment' \in linear_sum_assignment(cost_matrix')
           /\ j' = 1
           /\ pc' = "search"
    /\ UNCHANGED <<inputs, A_curr, total_cost, used_vertex_sets, i, mapping,
                   enumerator, accepted>>

(* one pass of its inner while loop *)
Attempt ==
    /\ variant = "undirected"
    /\ pc = "search"
    /\ CheckUnique(k_best_assignment_solver_undirected(cost_matrix, best_assignment,
                                                       j, k))
    /\ UNCHANGED <<inputs, A_curr, total_cost, i, iteration, enumerator, accepted>>

(* the install step with total_cost = iteration_cost in place of +=        *)
InstallOverwritingTotal ==
    /\ variant = "undirected"
    /\ pc = "install"
    /\ LET iteration_cost == calculate_extension_cost(A_curr, A_P, mapping)
       IN  /\ A_curr' = apply_extension(A_curr, A_P, mapping)
           /\ total_cost' = iteration_cost
           /\ accepted' = Append(accepted, [mapping |-> mapping,
                                            cost |-> iteration_cost,
                                            before |-> A_curr])
    /\ i' = i + 1
    /\ pc' = "loop"
    /\ UNCHANGED <<inputs, used_vertex_sets, iteration, j, mapping, enumerator>>

(* the install step on a working matrix that is the caller's A_G itself    *)
(* (no copy): the extension is written into the host matrix                *)
InstallInPlace ==
    /\ variant = "undirected"
    /\ pc = "install"
    /\ LET iteration_cost == calculate_extension_cost(A_curr, A_P, mapping)
       IN  /\ A_curr' = apply_extension(A_curr, A_P, mapping)
           /\ A_G' = apply_extension(A_curr, A_P, mapping)
           /\ total_cost' = total_cost + iteration_cost
           /\ accepted' = Append(accepted, [mapping |-> mapping,
                                            cost |-> iteration_cost,
                                            before |-> A_curr])
    /\ i' = i + 1
    /\ pc' = "loop"
    /\ UNCHANGED <<variant, A_P, n, used_vertex_sets, iteration, j, mapping, enumerator>>

(* cost, apply and accumulate *)
Install ==
    /\ variant = "undirected"
    /\ pc = "install"
    /\ LET iteration_cost == calculate_extension_cost(A_curr, A_P, mapping)
       IN  /\ A_curr' = apply_extension(A_curr, A_P, mapping)
           /\ total_cost' = total_cost + iteration_cost
           /\ accepted' = Append(accepted, [mapping |-> mapping,
                                            cost |-> iteration_cost,
                                            before |-> A_curr])
    /\ i' = i + 1
    /\ pc' = "loop"
    /\ UNCHANGED <<inputs, used_vertex_sets, iteration, j, mapping, enumerator>>

(* either run: the loop is over, return (A_curr, total_cost) *)
Return ==
    /\ pc = "loop"
    /\ i = n
    /\ pc' = "returned"
    /\ UNCHANGED <<inputs, A_curr, total_cost, used_vertex_sets, i, iteration, j, mapping, enumerator, accepted>>

-----------------------------------------------------------------------------
(* algorithm_v3_directed.find_minimal_extension_v3_directed *)

max_solutions == Min2(j + ExtraSolutions, MaxSolutionsCap)

(* an iteration of the exhaustive branch, up to the accepted mapping *)
ExhaustiveSearch ==
    /\ variant = "directed"
    /\ pc = "loop"
    /\ i < n
    /\ k <= ExhaustiveMaxK /\ N <= ExhaustiveMaxN
    /\ LET best_mapping == ExhaustiveBest(A_curr, A_P, used_vertex_sets)
       IN  IF best_mapping = <<>> THEN
               /\ pc' = "RuntimeError"
               /\ UNCHANGED <<mapping, used_vertex_sets>>
           ELSE
               /\ mapping' = best_mapping
               /\ used_vertex_sets' = used_vertex_sets \cup {Range(best_mapping)}
               /\ pc' = "install"
    /\ UNCHANGED <<inputs, A_curr, total_cost, i, iteration, j, enumerator, accepted>>

(* top of an iteration of the assignment branch *)
StartIterationDirected ==
    /\ variant = "directed"
    /\ pc = "loop"
    /\ i < n
    /\ ~(k <= ExhaustiveMaxK /\ N <= ExhaustiveMaxN)
    /\ IF k > N THEN
           /\ pc' = "IndexError"
           /\ UNCHANGED <<iteration, j>>
       ELSE
           /\ cost_matrix' =
                  IF k <= QuadraticMaxK
                  THEN build_cost_matrix_quadratic_directed(A_curr, A_P, k, N,
                                                            used_vertex_sets)
                  ELSE build_cost_matrix_directed(calculate_total_degrees(A_P),
                                                  calculate_total_degrees(A_curr), k, N)
           /\ best_assignment' \in linear_sum_assignment(cost_matrix')
           /\ j' = 1
           /\ pc' = "search"
    /\ UNCHANGED <<inputs, A_curr, total_cost, used_vertex_sets, i, mapping,
                   enumerator, accepted>>

(* one pass of the inner while loop at rank 1: the assignment solver *)
AttemptFirst ==
    /\ variant = "directed"
    /\ pc = "search"
    /\ j = 1
    /\ CheckUnique(RealRows(best_assignment, k))
    /\ UNCHANGED <<inputs, A_curr, total_cost, i, iteration, enumerator, accepted>>

(* a pass at rank j > 1 enters compute_k_best: the unconstrained solve *)
ComputeKBestStart ==
    /\ variant = "directed"
    /\ pc = "search"
    /\ j > 1
    /\ queue' = {[cost |-> AssignCost(cost_matrix, best_assignment),
                   includes |-> <<>>, excludes |-> <<>>,
                   mapping |-> RealRows(best_assignment, k)]}
    /\ solutions' = <<>>
    /\ seen_mappings' = {}
    /\ pc' = "compute_k_best"
    /\ UNCHANGED <<inputs, A_curr, total_cost, used_vertex_sets, i, iteration, j, mapping, accepted>>

(* one pass of the while loop of compute_k_best *)
ComputeKBestStep ==
    /\ pc = "compute_k_best"
    /\ queue # {} /\ Len(solutions) < max_solutions
    /\ LET entry == HeapMin(queue)
       IN  IF entry.mapping \in seen_mappings THEN
               /\ queue' = queue \ {entry}
               /\ UNCHANGED <<solutions, seen_mappings>>
           ELSE
               /\ seen_mappings' = seen_mappings \cup {entry.mapping}
               /\ solutions' = Append(solutions,
                                      [cost |-> entry.cost, mapping |-> entry.mapping])
               /\ \E pushed \in Partition(cost_matrix, k, entry.includes,
                                          entry.excludes, entry.mapping, 0) :
                      queue' = (queue \ {entry}) \cup pushed
    /\ UNCHANGED <<inputs, A_curr, total_cost, used_vertex_sets, i, iteration, j, mapping, pc, accepted>>

(* compute_k_best is over: get_solution(j), then the uniqueness check *)
ComputeKBestReturn ==
    /\ pc = "compute_k_best"
    /\ ~(queue # {} /\ Len(solutions) < max_solutions)
    /\ CheckUnique(KBestResult(solutions, j, k))
    /\ solutions' = <<>>
    /\ queue' = {}
    /\ seen_mappings' = {}
    /\ UNCHANGED <<inputs, A_curr, total_cost, i, iteration, accepted>>

InstallDirected ==
    /\ variant = "directed"
    /\ pc = "install"
    /\ LET iteration_cost == calculate_extension_cost_directed(A_curr, A_P, mapping)
       IN  /\ A_curr' = apply_extension_directed(A_curr, A_P, mapping)
           /\ total_cost' = total_cost + iteration_cost
           /\ accepted' = Append(accepted, [mapping |-> mapping,
                                            cost |-> iteration_cost,
                                            before |-> A_curr])
    /\ i' = i + 1
    /\ pc' = "loop"
    /\ UNCHANGED <<inputs, used_vertex_sets, iteration, j, mapping, enumerator>>

Next ==
    \/ StartIteration
    \/ Attempt
    \/ Install
    \/ ExhaustiveSearch
    \/ StartIterationDirected
    \/ AttemptFirst
    \/ ComputeKBestStart
    \/ ComputeKBestStep
    \/ ComputeKBestReturn
    \/ InstallDirected
    \/ Return

Spec == Init /\ [][Next]_vars

-----------------------------------------------------------------------------
(* One call k_best_assignment_solver(cost_matrix, j, k) of the directed    *)
(* module, on the cost matrix either builder makes for a pair of graphs.   *)
(* The library is a function of its argument, so the enumeration of a call *)
(* for a lower rank is a prefix of the enumeration of this call.           *)

MaxRank == 24

LoopsHost3    == <<<<0, 0, 0>>, <<0, 1, 0>>, <<0, 0, 2>>>>
LoopsPattern2 == <<<<0, 0>>, <<0, 1>>>>
FanHost3      == <<<<0, 1, 2>>, <<0, 0, 0>>, <<0, 0, 0>>>>
(* total degrees 3, 0, 4, 1 against the pattern's 0, 2, 0 *)
LoopsHost4    == <<<<1, 0, 0, 1>>, <<0, 0, 0, 0>>, <<0, 0, 2, 0>>, <<0, 0, 0, 0>>>>
LoopPattern3  == <<<<0, 0, 0>>, <<0, 1, 0>>, <<0, 0, 0>>>>

SolverGraphs ==
    {<<PathDirected3, EdgeDirected>>, <<FanHost3, EdgeDirected>>,
     <<FanHost3, PathDirected3>>, <<Zeros(2), EdgeDirected>>,
     <<Zeros(2), Zeros(1)>>, <<Zeros(1), Zeros(1)>>}

(* graphs for the linear builder only: their loops make distinct degrees *)
SolverGraphsLinear ==
    {<<LoopsHost3, LoopsPattern2>>, <<LoopsHost3, EdgeDirected>>,
     <<LoopsHost4, LoopPattern3>>}

SolverInputs ==
    (SolverGraphs \X BOOLEAN) \cup (SolverGraphsLinear \X {FALSE})

InitKBest ==
    \E inp \in SolverInputs, rank \in 1 .. MaxRank :
      LET g == inp[1]
          quadratic == inp[2]
      IN
        /\ variant = "directed"
        /\ A_G = g[1]
        /\ A_P = g[2]
        /\ n = 1
        /\ A_curr = g[1]
        /\ total_cost = 0
        /\ used_vertex_sets = {}
        /\ i = 0
        /\ cost_matrix =
               IF quadratic
               THEN build_cost_matrix_quadratic_directed(g[1], g[2], Len(g[2]),
                                                         Len(g[1]), {})
               ELSE build_cost_matrix_directed(calculate_total_degrees(g[2]),
                                               calculate_total_degrees(g[1]),
                                               Len(g[2]), Len(g[1]))
        /\ best_assignment \in linear_sum_assignment(cost_matrix)
        /\ j = rank
        /\ mapping = <<>>
        /\ pc = "search"
        /\ solutions = <<>>
        /\ queue = {}
        /\ seen_mappings = {}
        /\ accepted = <<>>

(* j == 1: the assignment solver's mapping *)
SolveFirst ==
    /\ pc = "search"
    /\ j = 1
    /\ mapping' = RealRows(best_assignment, k)
    /\ pc' = "solved"
    /\ UNCHANGED <<inputs, A_curr, total_cost, used_vertex_sets, i, iteration, j,
                   enumerator, accepted>>

(* j > 1: compute_k_best is over; get_solution(j) and the fallbacks *)
SolveReturn ==
    /\ pc = "compute_k_best"
    /\ ~(queue # {} /\ Len(solutions) < max_solutions)
    /\ mapping' = KBestResult(solutions, j, k)
    /\ pc' = "solved"
    /\ UNCHANGED <<inputs, A_curr, total_cost, used_vertex_sets, i, iteration, j,
                   enumerator, accepted>>

NextKBest ==
    \/ SolveFirst
    \/ ComputeKBestStart
    \/ ComputeKBestStep
    \/ SolveReturn

SpecKBest == InitKBest /\ [][NextKBest]_vars

-----------------------------------------------------------------------------
(* Properties *)

(* the pattern pairs a variant checks *)
PairsOf(w, kk) == {pr \in Idx(kk) \X Idx(kk) : w = "directed" \/ pr[1] <= pr[2]}

(* the shortfall of mapping m against matrix A *)
Shortfall(w, A, P, m) ==
    SeqSum([u \in 1 .. Len(P) |-> SeqSum([v \in 1 .. Len(P) |->
        IF <<u - 1, v - 1>> \in PairsOf(w, Len(P))
        THEN Max2(0, P[u][v] - At(A, m[u], m[v])) ELSE 0])])

AfterIteration == pc \in {"loop", "returned"}
Returned == pc = "returned"
Mappings == InjectiveMappings(k, N)

(* C1: no edge is ever removed: after every iteration and on return every  *)
(* entry of the working matrix is at least the entry of A_G, and both      *)
(* apply functions return a matrix element-wise at least their input for   *)
(* every injective mapping.                                                *)
C1_NoEdgeRemoved ==
    AfterIteration =>
        /\ MatGeq(A_curr, A_G)
        /\ \A m \in Mappings :
              /\ MatGeq(apply_extension(A_curr, A_P, m), A_curr)
              /\ MatGeq(apply_extension_directed(A_curr, A_P, m), A_curr)

C1_Witness ==
    /\ Returned /\ n = 2 /\ Len(accepted) = 2
    /\ accepted[1].cost > 0 /\ accepted[2].cost > 0
    /\ MatSum(A_G) > 0

(* C2: with a symmetric host the undirected run keeps the working matrix   *)
(* symmetric after every iteration, and apply_extension returns a          *)
(* symmetric matrix for every injective mapping.                           *)
C2_SymmetryKept ==
    (variant = "undirected" /\ Symmetric(A_G) /\ AfterIteration) =>
        /\ Symmetric(A_curr)
        /\ \A m \in Mappings : Symmetric(apply_extension(A_curr, A_P, m))

C2_Witness ==
    /\ variant = "undirected" /\ Symmetric(A_G) /\ Returned
    /\ Len(accepted) = 2 /\ A_curr # A_G /\ ~Symmetric(A_P)

(* C3: the vertex set accepted by an iteration differs from the sets of    *)
(* all earlier iterations, the registry only grows, and on return the      *)
(* registry holds exactly n pairwise distinct k-element vertex sets.       *)
AcceptedSets == [t \in 1 .. Len(accepted) |-> Range(accepted[t].mapping)]

C3_Registry ==
    /\ \A s, t \in 1 .. Len(accepted) : s # t => AcceptedSets[s] # AcceptedSets[t]
    /\ \A t \in 1 .. Len(accepted) : Cardinality(AcceptedSets[t]) = k
    /\ pc = "install" => Range(mapping) \notin Range(AcceptedSets)
    /\ used_vertex_sets = Range(AcceptedSets)
                            \cup (IF pc = "install" THEN {Range(mapping)} ELSE {})
    /\ Returned => Cardinality(used_vertex_sets) = n

C3_VertexSetsUnique ==
    [](C3_Registry) /\ [][used_vertex_sets \subseteq used_vertex_sets']_vars

C3_Witness ==
    /\ Returned /\ n = 2 /\ Cardinality(used_vertex_sets) = 2
    /\ \E a, b \in used_vertex_sets : a # b /\ a \cap b # {}

(* C4: on return the final matrix holds every accepted copy: for every     *)
(* accepted mapping m and every pattern pair (u, v) the variant checks,    *)
(* final[m[u]][m[v]] >= P[u][v].                                           *)
C4_AllCopiesContained ==
    Returned =>
        \A t \in 1 .. Len(accepted) :
            \A pr \in PairsOf(variant, k) :
                At(A_curr, accepted[t].mapping[pr[1] + 1], accepted[t].mapping[pr[2] + 1])
                    >= At(A_P, pr[1], pr[2])

C4_Witness ==
    /\ Returned /\ Len(accepted) = 2
    /\ accepted[1].cost > 0 /\ accepted[2].cost > 0
    /\ Range(accepted[1].mapping) \cap Range(accepted[2].mapping) # {}

(* C5: for a symmetric host the total cost returned by the undirected run  *)
(* is half the sum of all entries of (output - input).                     *)
C5_UndirectedCostIsHalfAdded ==
    (variant = "undirected" /\ Symmetric(A_G) /\ Returned) =>
        total_cost = (MatSum(A_curr) - MatSum(A_G)) \div 2

(* C6: the total cost returned by the directed run is the sum of all       *)
(* entries of (output - input).                                            *)
C6_DirectedCostIsAdded ==
    (variant = "directed" /\ Returned) =>
        total_cost = MatSum(A_curr) - MatSum(A_G)

C6_Witness ==
    /\ variant = "directed" /\ Returned /\ Len(accepted) = 2
    /\ accepted[1].cost > 1 /\ accepted[2].cost > 0 /\ ~Symmetric(A_curr)

(* C7: after each completed iteration total_cost is the sum, over the      *)
(* iterations completed so far, of the shortfall of the applied mapping    *)
(* against the working matrix as it was just before it was applied; so     *)
(* total_cost is never negative and never decreases.                       *)
C7_SumOfShortfalls ==
    /\ total_cost = SeqSum([t \in 1 .. Len(accepted) |->
                               Shortfall(variant, accepted[t].before, A_P,
                                         accepted[t].mapping)])
    /\ total_cost >= 0

C7_AccumulatedCost ==
    [](C7_SumOfShortfalls) /\ [][total_cost' >= total_cost]_vars

C7_Witness ==
    /\ AfterIteration /\ Len(accepted) = 2
    /\ accepted[1].cost > 0 /\ accepted[2].cost > 0
    /\ accepted[2].before # A_G
    /\ total_cost = accepted[1].cost + accepted[2].cost

(* C8: if some injective mapping has shortfall 0 against the input matrix  *)
(* then a run with n = 1 returns total cost 0 and the input matrix.        *)
C8_Idempotence ==
    (Returned /\ n = 1 /\ k <= N
       /\ \E m \in Mappings : Shortfall(variant, A_G, A_P, m) = 0) =>
        (total_cost = 0 /\ A_curr = A_G)

C10_TooFewVerticesRaises ==
    (k <= N /\ N < n * k) => pc # "returned"

(* C11: the insufficient-unique-mappings error is raised only when         *)
(* N < n * k; a run with k <= N and N >= n * k never raises it and, once   *)
(* its loop is over, has returned n copies.                                *)
C11_ErrorOnlyWhenTooSmall ==
    /\ pc = "RuntimeError" => N < n * k
    /\ (k <= N /\ N >= n * k /\ Returned) => Len(accepted) = n

(* C12: on return of a run with n >= 2 the vertex sets of the accepted     *)
(* mappings are pairwise disjoint.  Stated on the runs whose host has room *)
(* for n disjoint copies (N >= n * k).                                     *)
C12_DisjointCopies ==
    (Returned /\ n >= 2 /\ N >= n * k) =>
        \A s, t \in 1 .. Len(accepted) :
            s # t => AcceptedSets[s] \cap AcceptedSets[t] = {}

(* the cost of a mapping: the original cost-matrix entries of rows 0..k-1 *)
TrueCost(C, m) == SeqSum([u \in 1 .. Len(m) |-> C[u][m[u] + 1]])

Solved == pc = "solved"

C15_ExhaustionReported ==
    (Solved /\ j > 1 /\ j > Len(solutions)) => mapping = <<>>

(* C16: a call whose pattern has more vertices than the host (k > N) is    *)
(* rejected before any computation: no mapping is ever searched or         *)
(* accepted and the run never returns a result, for every n >= 0.          *)
C16_MalformedRejected ==
    (k > N) => /\ pc \in {"loop", "IndexError", "RuntimeError"}
               /\ used_vertex_sets = {}
               /\ pc # "returned"

Raised == pc \in {"RuntimeError", "IndexError"}

C18_ExactCost ==
    /\ AfterIteration =>
           \A m \in Mappings :
               /\ calculate_extension_cost_directed(A_curr, A_P, m)
                      = Shortfall("directed", A_curr, A_P, m)
               /\ calculate_extension_cost(A_curr, A_P, m)
                      = Shortfall("undirected", A_curr, A_P, m)
    /\ calculate_extension_cost_directed(PathDirected3, EdgeDirected, <<1, 2>>) = 0
    /\ calculate_extension_cost_directed(PathDirected3, EdgeDirected, <<0, 2>>) = 1

C18_Witness ==
    /\ AfterIteration /\ variant = "directed" /\ Len(accepted) = 2 /\ A_curr # A_G
    /\ \E m \in Mappings :
           /\ Shortfall("undirected", A_curr, A_P, m) > 0
           /\ Shortfall("directed", A_curr, A_P, m)
                  > Shortfall("undirected", A_curr, A_P, m)
    /\ \E m \in Mappings, u, v \in 1 .. k :
           A_P[u][v] < At(A_curr, m[u], m[v])

ExhaustiveBranch == variant = "directed" /\ k <= ExhaustiveMaxK /\ N <= ExhaustiveMaxN

(* C19: in the exhaustive branch the mapping accepted in an iteration      *)
(* costs, against the working matrix of that iteration, no more than any   *)
(* injective k-mapping whose vertex set was not in the registry then.      *)
C19_ExhaustiveOptimal ==
    ExhaustiveBranch =>
        \A t \in 1 .. Len(accepted) :
            \A m \in Mappings :
                Range(m) \notin {AcceptedSets[s] : s \in 1 .. (t - 1)} =>
                    Shortfall("directed", accepted[t].before, A_P, accepted[t].mapping)
                        <= Shortfall("directed", accepted[t].before, A_P, m)

C19_Witness ==
    /\ ExhaustiveBranch /\ Len(accepted) = 2 /\ accepted[2].cost > 0
    /\ \E m \in Mappings :
           /\ Range(m) = AcceptedSets[1]
           /\ Shortfall("directed", accepted[2].before, A_P, m) = 0
    /\ \E m \in Mappings :
           /\ Range(m) # AcceptedSets[1]
           /\ Shortfall("directed", accepted[2].before, A_P, m) > accepted[2].cost

(* the k-element subsets of the N vertices; their number is C(N, k) *)
KSubsets == {S \in SUBSET Idx(N) : Cardinality(S) = k}

(* C20: in the exhaustive branch with k <= N an iteration raises exactly   *)
(* when every k-element subset of the vertices is in the registry; so a    *)
(* run returns only if n <= C(N, k), and raises only if n > C(N, k), in    *)
(* iteration C(N, k) + 1.                                                  *)
C20_Exhaustion ==
    (ExhaustiveBranch /\ k <= N) =>
        /\ Returned => n <= Cardinality(KSubsets)
        /\ pc = "RuntimeError" =>
               /\ n > Cardinality(KSubsets)
               /\ i = Cardinality(KSubsets)
               /\ used_vertex_sets = KSubsets
        /\ pc = "install" => used_vertex_sets \subseteq KSubsets

C20_FailsExactlyOnExhaustion ==
    /\ [](C20_Exhaustion)
    /\ [][(ExhaustiveBranch /\ k <= N /\ pc = "loop" /\ i < n) =>
              (pc' = "RuntimeError" <=> used_vertex_sets = KSubsets)]_vars

C20_Witness ==
    /\ ExhaustiveBranch /\ k <= N /\ pc = "RuntimeError"
    /\ Cardinality(KSubsets) = 2 /\ i = 2 /\ n = 3 /\ A_curr # A_G

(* the pattern's multiplicity as a variant counts it: the upper triangle   *)
(* with the diagonal (undirected), or every entry (directed)               *)
PatternMultiplicity(w, P) ==
    SeqSum([u \in 1 .. Len(P) |-> SeqSum([v \in 1 .. Len(P) |->
        IF w = "directed" \/ u <= v THEN P[u][v] ELSE 0])])

(* C21: a run with n = 1 on an edgeless host with N >= k vertices returns  *)
(* as total cost the pattern's multiplicity (3 for the triangle on four    *)
(* vertices), a matrix that on the chosen vertices is the pattern          *)
(* (final[m[u]][m[v]] = P[u][v]) and is 0 in every entry with a row or     *)
(* column outside the chosen vertices.  The undirected variant is stated   *)
(* on the symmetric patterns it is documented for.                         *)
C21_EdgelessHost ==
    (Returned /\ n = 1 /\ k <= N /\ A_G = Zeros(N)
       /\ (variant = "undirected" => Symmetric(A_P))) =>
        LET m == accepted[1].mapping
        IN  /\ total_cost = PatternMultiplicity(variant, A_P)
            /\ (variant = "undirected" /\ A_P = Triangle) => total_cost = 3
            /\ \A u, v \in Idx(k) : At(A_curr, m[u + 1], m[v + 1]) = At(A_P, u, v)
            /\ \A r, c \in Idx(N) :
                   (r \notin Range(m) \/ c \notin Range(m)) => At(A_curr, r, c) = 0

C21_Witness ==
    /\ Returned /\ n = 1 /\ variant = "undirected" /\ A_G = Zeros(4)
    /\ A_P = Triangle /\ total_cost = 3 /\ Cardinality(Range(accepted[1].mapping)) = 3

(* C22: for n = 1 the cost returned by the undirected run is the minimum,  *)
(* over all injective mappings of the k pattern vertices into the N host   *)
(* vertices, of the exact extension cost of the mapping against the host.  *)
(* Stated on symmetric patterns, the documented input of that run.         *)
C22_MinimumForOneCopy ==
    (variant = "undirected" /\ Symmetric(A_P) /\ Returned /\ n = 1 /\ k <= N) =>
        total_cost = SetMin({calculate_extension_cost(A_G, A_P, m) : m \in Mappings})

(* C23: a constrained solve never returns an assignment that contains an   *)
(* excluded (row, col) pair, and a sub-problem whose constraints leave no  *)
(* feasible assignment returns (None, None) and pushes no node: so every   *)
(* node compute_k_best has pushed holds a mapping that avoids each pair of *)
(* its exclude list.                                                       *)
C23_ExclusionsRespected ==
    \A entry \in queue :
        \A x \in 1 .. Len(entry.excludes) :
            entry.mapping[entry.excludes[x][1] + 1] # entry.excludes[x][2]

IsInjectiveInRange(m) ==
    /\ Len(m) = k
    /\ \A u \in 1 .. Len(m) : m[u] \in Idx(N)
    /\ \A u, v \in 1 .. Len(m) : u # v => m[u] # m[v]

Terminated == pc \in {"returned", "RuntimeError", "IndexError"}

(* A measure of the work a run has left: the iterations to come, within an *)
(* iteration the ranks to come, within a rank the solutions compute_k_best *)
(* may still list (each pushes at most k nodes) and the nodes it may pop.  *)
RankWeight == MaxSolutionsCap * (k + 1) + 3
IterationWeight == (MaxAttempts + 1) * RankWeight + 3

Measure ==
    IF Terminated THEN 0
    ELSE (n - i) * IterationWeight +
         CASE pc = "loop" -> 1
           [] pc = "install" -> 2 - IterationWeight
           [] pc = "search" ->
                  3 - IterationWeight + (MaxAttempts + 1 - j) * RankWeight
           [] pc = "compute_k_best" ->
                  3 - IterationWeight + (MaxAttempts - j) * RankWeight + 1
                    + (max_solutions - Len(solutions)) * (k + 1) + Cardinality(queue)

(* the step a run takes from a state that is not a return or an error:    *)
(* Return or the top of an iteration from "loop", a pass of the inner      *)
(* while loop from "search", a pass or the end of the enumeration from     *)
(* "compute_k_best", cost and apply from "install"                         *)
HasNextStep ==
    \/ pc = "loop" /\ i <= n
    \/ pc = "search" /\ j >= 1 /\ Len(best_assignment) = N
    \/ pc = "compute_k_best" /\ j > 1
    \/ pc = "install" /\ IsInjectiveInRange(mapping)

C26_Bounded ==
    /\ pc \in {"search", "compute_k_best"} => j \in 1 .. MaxAttempts
    /\ j <= MaxAttempts + 1
    /\ (pc = "RuntimeError" /\ ~ExhaustiveBranch) => j = MaxAttempts + 1
    /\ pc = "compute_k_best" => Len(solutions) <= max_solutions
    /\ i <= n
    /\ Returned => i = n
    /\ Measure >= 0
    /\ ~Terminated => HasNextStep

(* C26: every run terminates.  The uniqueness search of an iteration tries *)
(* the ranks j = 1 .. 1000 at most and raises once the cap is exceeded,    *)
(* compute_k_best lists at most max_solutions solutions, a run performs at *)
(* most n iterations, every state that is not a return or an error has a   *)
(* next step, and every step strictly lowers a non-negative measure of     *)
(* the remaining work: so every run ends by returning or by raising.       *)
C26_Terminates ==
    [](C26_Bounded) /\ [][Measure' < Measure]_vars

C26_Witness ==
    /\ pc = "RuntimeError" /\ j = MaxAttempts + 1 /\ i >= 1 /\ A_curr # A_G

Tractable == k <= ExhaustiveMaxK /\ N <= ExhaustiveMaxN

(* C27: in every iteration of a run of either variant the strategy follows *)
(* from (k, N) alone: when k <= 3 and N <= 10 the mapping is found by the  *)
(* exhaustive search (no cost matrix is built and no rank is tried);       *)
(* otherwise the ranks are tried on the quadratic cost matrix when k <= 4  *)
(* and on the linear degree-difference matrix when k > 4, with rank 1      *)
(* taken from the assignment solver and a rank j >= 2 from the             *)
(* enumerator.                                                             *)
C27_StrategyDispatch ==
    /\ Tractable =>
           /\ pc \notin {"search", "compute_k_best"}
           /\ cost_matrix = <<>>
           /\ pc = "install" =>
                  mapping = ExhaustiveBest(A_curr, A_P,
                                           used_vertex_sets \ {Range(mapping)})
    /\ (~Tractable /\ pc \in {"search", "compute_k_best"}) =>
           cost_matrix =
               IF k <= QuadraticMaxK
               THEN build_cost_matrix_quadratic_directed(A_curr, A_P, k, N,
                                                         used_vertex_sets)
               ELSE build_cost_matrix_directed(calculate_total_degrees(A_P),
                                               calculate_total_degrees(A_curr), k, N)
    /\ (~Tractable /\ pc = "install" /\ j = 1) =>
           mapping = RealRows(best_assignment, k)
    /\ (~Tractable /\ pc = "compute_k_best") => j >= 2

(* the degree either linear builder is given for vertex v of matrix A: the *)
(* row sum (undirected), or the row sum plus the column sum (directed)     *)
DegreeOf(w, A, v) ==
    SeqSum(A[v + 1])
      + (IF w = "directed" THEN SeqSum([r \in 1 .. Len(A) |-> A[r][v + 1]]) ELSE 0)

(* C is the linear cost matrix of variant w for the pattern and the       *)
(* working matrix                                                          *)
IsLinearCostMatrix(C, w) ==
    /\ Len(C) = N
    /\ \A u \in Idx(N) :
           /\ Len(C[u + 1]) = N
           /\ \A v \in Idx(N) :
                  /\ At(C, u, v) >= 0
                  /\ At(C, u, v) =
                         IF u < k
                         THEN Abs(DegreeOf(w, A_P, u) - DegreeOf(w, A_curr, v))
                         ELSE 0

(* C28: the linear cost matrix is N x N, its entry [u][v] is               *)
(* |P_degrees[u] - G_degrees[v]| for u < k and 0 for the dummy rows        *)
(* u >= k, and no entry is negative: for the matrix the undirected run     *)
(* builds in an iteration, for the matrix build_cost_matrix_directed       *)
(* makes of the total degrees of the pattern and of the working matrix    *)
(* between iterations, and for degrees [2, 2] against [1, 2, 3, 0] (real   *)
(* rows [1, 0, 1, 2]).                                                     *)
C28_LinearCostMatrix ==
    /\ (variant = "undirected" /\ pc = "search") =>
           IsLinearCostMatrix(cost_matrix, "undirected")
    /\ (AfterIteration /\ k <= N) =>
           IsLinearCostMatrix(
               build_cost_matrix_directed(calculate_total_degrees(A_P),
                                          calculate_total_degrees(A_curr), k, N),
               "directed")
    /\ build_cost_matrix(<<2, 2>>, <<1, 2, 3, 0>>, 2, 4)
           = <<<<1, 0, 1, 2>>, <<1, 0, 1, 2>>, <<0, 0, 0, 0>>, <<0, 0, 0, 0>>>>
    /\ build_cost_matrix_directed(<<2, 2>>, <<1, 2, 3, 0>>, 2, 4)
           = <<<<1, 0, 1, 2>>, <<1, 0, 1, 2>>, <<0, 0, 0, 0>>, <<0, 0, 0, 0>>>>

C28_Witness ==
    /\ variant = "undirected" /\ pc = "search" /\ i = 1 /\ k < N /\ A_curr # A_G
    /\ \E u \in Idx(k), v \in Idx(N) :
           DegreeOf(variant, A_P, u) < DegreeOf(variant, A_curr, v)
    /\ \E u \in Idx(k), v \in Idx(N) :
           DegreeOf(variant, A_P, u) > DegreeOf(variant, A_curr, v)

(* C29: for the working matrix A, the pattern P and every injective        *)
(* mapping m, the exact cost of m against apply_extension(A, P, m) is 0    *)
(* and applying the same extension to that result returns it unchanged;    *)
(* likewise for apply_extension_directed with                              *)
(* calculate_extension_cost_directed.                                      *)
C29_ApplyRealisesAndIdempotent ==
    (AfterIteration /\ k <= N) =>
        \A m \in Mappings :
            LET B == apply_extension(A_curr, A_P, m)
                D == apply_extension_directed(A_curr, A_P, m)
            IN  /\ calculate_extension_cost(B, A_P, m) = 0
                /\ apply_extension(B, A_P, m) = B
                /\ calculate_extension_cost_directed(D, A_P, m) = 0
                /\ apply_extension_directed(D, A_P, m) = D

C29_Witness ==
    /\ AfterIteration /\ k <= N /\ i = 1 /\ A_curr # A_G /\ ~Symmetric(A_curr)
    /\ \E m \in Mappings :
           /\ calculate_extension_cost(A_curr, A_P, m) > 1
           /\ calculate_extension_cost_directed(A_curr, A_P, m)
                  > calculate_extension_cost(A_curr, A_P, m)
           /\ \E u, v \in 1 .. k : At(A_curr, m[u], m[v]) > A_P[u][v]

(* the cells of A that the extension of mapping m may change in variant w: *)
(* (m[u], m[v]) for a checked pattern pair with positive shortfall, and    *)
(* in the undirected variant its mirror (m[v], m[u])                       *)
TouchedCells(w, A, P, m) ==
    {cell \in Idx(Len(A)) \X Idx(Len(A)) :
        \E pr \in PairsOf(w, Len(P)) :
            /\ At(P, pr[1], pr[2]) > At(A, m[pr[1] + 1], m[pr[2] + 1])
            /\ \/ cell = <<m[pr[1] + 1], m[pr[2] + 1]>>
               \/ w = "undirected" /\ cell = <<m[pr[2] + 1], m[pr[1] + 1]>>}

(* C30: apply_extension_directed changes only cells (m[u], m[v]) of        *)
(* pattern pairs with positive shortfall, apply_extension only such cells  *)
(* and their mirrors for pairs u <= v; a cell whose row or column is       *)
(* outside the image of the mapping is unchanged, and in a whole run every *)
(* cell outside image x image of all accepted mappings keeps its input     *)
(* value.                                                                  *)
C30_OnlyMappedCells ==
    /\ (AfterIteration /\ k <= N) =>
           \A m \in Mappings :
               \A r, c \in Idx(N) :
                   /\ <<r, c>> \notin TouchedCells("undirected", A_curr, A_P, m) =>
                          At(apply_extension(A_curr, A_P, m), r, c) = At(A_curr, r, c)
                   /\ <<r, c>> \notin TouchedCells("directed", A_curr, A_P, m) =>
                          At(apply_extension_directed(A_curr, A_P, m), r, c)
                              = At(A_curr, r, c)
                   /\ (r \notin Range(m) \/ c \notin Range(m)) =>
                          /\ <<r, c>> \notin TouchedCells("undirected", A_curr, A_P, m)
                          /\ <<r, c>> \notin TouchedCells("directed", A_curr, A_P, m)
    /\ \A r, c \in Idx(N) :
           (\A t \in 1 .. Len(accepted) :
                r \notin AcceptedSets[t] \/ c \notin AcceptedSets[t]) =>
               At(A_curr, r, c) = At(A_G, r, c)

C30_Witness ==
    /\ Returned /\ Len(accepted) = 2 /\ accepted[1].cost > 0 /\ accepted[2].cost > 0
    /\ \E r, c \in Idx(N) :
           /\ \A t \in 1 .. 2 : r \notin AcceptedSets[t] \/ c \notin AcceptedSets[t]
           /\ At(A_G, r, c) > 0
    /\ \E r, c \in Idx(N) :
           /\ r \in AcceptedSets[1] /\ c \in AcceptedSets[1]
           /\ At(A_curr, r, c) = At(A_G, r, c) /\ At(A_G, r, c) > 0

====
